---- MODULE Spec2Model ----
(***************************************************************************)
(* vaultify: parse a .secrets file, resolve a vault token, fetch every     *)
(* secret (retry, bounded concurrency, v2 -> v1 fallback) and replace the  *)
(* process image by the target command.                                    *)
(*                                                                         *)
(* Strings are sequences of one-character strings.  Option<T> is <<>>      *)
(* (None) or <<x>> (Some(x)).  Result<T> is <<"Ok", v>> or <<"Err", e>>.   *)
(***************************************************************************)
EXTENDS Integers, Sequences, FiniteSets, TLC

\* ------------------------------------------------------------------ bounds
\* Largest number of lines of a .secrets file.
MaxLines == 3
\* Largest value of --retries.
MaxRetryCount == 1
\* Largest value of --concurrency.
MaxConcurrency == 2
\* Largest length of a line the parser is tried on character by character.
MaxLineLen == 7
\* Largest number of secrets process::spawn is called with on its own.
MaxSecrets == 2
\* Largest number of characters of the value of a Secret that is formatted.
MaxValueLen == 2

\* ----------------------------------------------------------- basic values
None == <<>>
Some(x) == <<x>>
IsSome(o) == Len(o) = 1
Unwrap(o) == o[1]

Ok(v) == <<"Ok", v>>
Err(e) == <<"Err", e>>
IsOk(r) == r[1] = "Ok"
IsErr(r) == r[1] = "Err"

Min(a, b) == IF a < b THEN a ELSE b

\* ------------------------------------------------------------- characters
Lower == {"a", "b", "c", "d", "e", "f", "g", "h", "i", "j", "k", "l", "m",
          "n", "o", "p", "q", "r", "s", "t", "u", "v", "w", "x", "y", "z"}
Upper == {"A", "B", "C", "D", "E", "F", "G", "H", "I", "J", "K", "L", "M",
          "N", "O", "P", "Q", "R", "S", "T", "U", "V", "W", "X", "Y", "Z"}
Digit == {"0", "1", "2", "3", "4", "5", "6", "7", "8", "9"}

\* [a-zA-Z0-9_]
NameClass == Lower \cup Upper \cup Digit \cup {"_"}
\* [a-zA-Z0-9_\-\@]
MountClass == NameClass \cup {"-", "@"}
\* [a-zA-Z0-9_\-\/\@]
PathClass == MountClass \cup {"/"}

\* is_whitespace as it would be if it knew the space alone.
is_whitespace_space_only(c) == c = " "

\* char::is_whitespace, on the characters the model uses
is_whitespace(c) == c \in {" ", "\t", "\n", "\r"}
\* is_numeric as it would be if it took the digit zero alone for a number.
is_numeric_zero_only(c) == c = "0"

\* char::is_numeric, on the characters the model uses
is_numeric(c) == c \in Digit
\* Two characters outside ASCII, each written as its code point: U+00E9 is
\* the small letter e with acute, U+00C9 the capital one.
EAcute == "U+00E9"
EAcuteCapital == "U+00C9"

\* char::is_alphanumeric, on the characters the model uses: it goes by the
\* Unicode properties Alphabetic and Numeric, not by ASCII.
is_alphanumeric(c) == c \in Lower \cup Upper \cup Digit \cup {EAcute, EAcuteCapital}

UpperOf == [c \in Lower |->
  CASE c = "a" -> "A" [] c = "b" -> "B" [] c = "c" -> "C" [] c = "d" -> "D"
    [] c = "e" -> "E" [] c = "f" -> "F" [] c = "g" -> "G" [] c = "h" -> "H"
    [] c = "i" -> "I" [] c = "j" -> "J" [] c = "k" -> "K" [] c = "l" -> "L"
    [] c = "m" -> "M" [] c = "n" -> "N" [] c = "o" -> "O" [] c = "p" -> "P"
    [] c = "q" -> "Q" [] c = "r" -> "R" [] c = "s" -> "S" [] c = "t" -> "T"
    [] c = "u" -> "U" [] c = "v" -> "V" [] c = "w" -> "W" [] c = "x" -> "X"
    [] c = "y" -> "Y" [] c = "z" -> "Z"]

\* char::to_ascii_uppercase: a..z to A..Z, every other character unchanged
to_ascii_uppercase(c) == IF c \in Lower THEN UpperOf[c] ELSE c

\* ------------------------------------------------------------------ errors
\* Error::parse as it would be if it kept the index enumerate() gives.
ErrorParseLineIndex(err, line_index, line) ==
  [kind |-> "Parse", err |-> err, lc |-> line_index, line |-> line]

\* Error::Parse { err, lc, line } built by Error::parse: lc is the 0-based
\* line index plus one.
ErrorParse(err, line_index, line) ==
  [kind |-> "Parse", err |-> err, lc |-> line_index + 1, line |-> line]
ErrorIO == [kind |-> "IO"]
ErrorReqwest == [kind |-> "Reqwest"]
ErrorNotFound == [kind |-> "NotFound"]
ErrorDeserialization == [kind |-> "Deserialization"]
ErrorMaxRetries == [kind |-> "MaxRetries"]
ErrorExecution == [kind |-> "Execution"]

\* ------------------------------------------------------ secrets.rs: parse
\* str::lines(): split at "\n", a "\r" before the "\n" belongs to the line
\* ending, and a final empty piece is not a line.
RECURSIVE IndexOf(_, _, _)
IndexOf(s, c, from) ==
  IF from > Len(s) THEN 0
  ELSE IF s[from] = c THEN from ELSE IndexOf(s, c, from + 1)

StripCR(s) ==
  IF Len(s) > 0 /\ s[Len(s)] = "\r" THEN SubSeq(s, 1, Len(s) - 1) ELSE s

RECURSIVE lines(_)
lines(s) ==
  IF s = <<>> THEN <<>>
  ELSE LET i == IndexOf(s, "\n", 1)
       IN IF i = 0 THEN <<s>>
          ELSE <<StripCR(SubSeq(s, 1, i - 1))>> \o lines(SubSeq(s, i + 1, Len(s)))

\* Length of the longest run of characters of class cls starting at from:
\* what a greedy `[cls]*` consumes.
RECURSIVE Run(_, _, _)
Run(s, from, cls) ==
  IF from > Len(s) \/ s[from] \notin cls THEN 0
  ELSE 1 + Run(s, from + 1, cls)

NoCapture == [matched |-> FALSE, name |-> None, mount |-> <<>>, path |-> <<>>,
              secret |-> <<>>]

\* ((?<mount>[..]*)\/)(?<path>[..]*)#(?<secret>.*) matched at position p.
\* No class contains the delimiter that follows it, so the greedy run is the
\* only length that can match.
CaptureRest(line, p, name) ==
  LET m == Run(line, p, MountClass)
      q == p + m + 1
      n == Run(line, q, PathClass)
  IN IF p + m <= Len(line) /\ line[p + m] = "/"
        /\ q + n <= Len(line) /\ line[q + n] = "#"
     THEN [matched |-> TRUE, name |-> name,
           mount |-> SubSeq(line, p, p + m - 1),
           path |-> SubSeq(line, q, q + n - 1),
           secret |-> SubSeq(line, q + n + 1, Len(line))]
     ELSE NoCapture

\* captures as it would be if a name group that matched nothing counted as a
\* group that did not take part in the match.
captures_empty_name_absent(line) ==
  LET k == Run(line, 1, NameClass)
      withName == IF k + 1 <= Len(line) /\ line[k + 1] = "="
                  THEN CaptureRest(line, k + 2,
                                   IF k = 0 THEN None ELSE Some(SubSeq(line, 1, k)))
                  ELSE NoCapture
  IN IF withName.matched THEN withName ELSE CaptureRest(line, 1, None)

\* REGEX_V1.captures(line): the optional group ((?<name>[..]*)=) is tried
\* first, and skipped when the rest does not match after it.
captures(line) ==
  LET k == Run(line, 1, NameClass)
      withName == IF k + 1 <= Len(line) /\ line[k + 1] = "="
                  THEN CaptureRest(line, k + 2, Some(SubSeq(line, 1, k)))
                  ELSE NoCapture
  IN IF withName.matched THEN withName ELSE CaptureRest(line, 1, None)

\* The body of the loop of parse for one line: "skip", an error, or a spec.
ParseLine(lc, line) ==
  IF line = <<>> \/ ~(\E i \in 1..Len(line) : ~is_whitespace(line[i]))
  THEN [tag |-> "skip"]
  ELSE LET cap == captures(line)
       IN IF ~cap.matched
          THEN [tag |-> "err", err |-> ErrorParse("unable to parse line", lc, line)]
          ELSE IF IsSome(cap.name) /\ Unwrap(cap.name) = <<>>
          THEN [tag |-> "err", err |-> ErrorParse("name cannot be empty", lc, line)]
          ELSE IF IsSome(cap.name) /\ is_numeric(Unwrap(cap.name)[1])
          THEN [tag |-> "err",
                err |-> ErrorParse("env vars must not start with a number", lc, line)]
          ELSE IF cap.mount = <<>>
          THEN [tag |-> "err", err |-> ErrorParse("mount cannot be empty", lc, line)]
          ELSE IF cap.path = <<>>
          THEN [tag |-> "err", err |-> ErrorParse("path cannot be empty", lc, line)]
          ELSE IF cap.secret = <<>>
          THEN [tag |-> "err", err |-> ErrorParse("secret cannot be empty", lc, line)]
          ELSE [tag |-> "spec",
                spec |-> [name |-> cap.name, mount |-> cap.mount,
                          path |-> cap.path, secret |-> cap.secret]]

RECURSIVE ParseFrom(_, _, _)
ParseFrom(ls, i, secrets) ==
  IF i > Len(ls) THEN Ok(secrets)
  ELSE LET r == ParseLine(i - 1, ls[i])
       IN CASE r.tag = "skip" -> ParseFrom(ls, i + 1, secrets)
            [] r.tag = "err" -> Err(r.err)
            [] r.tag = "spec" -> ParseFrom(ls, i + 1, Append(secrets, r.spec))

parse(contents) == ParseFrom(lines(contents), 1, <<>>)

\* SecretSpec::name
Transform(s) ==
  [i \in 1..Len(s) |->
     IF is_alphanumeric(s[i]) THEN to_ascii_uppercase(s[i]) ELSE "_"]

name(spec) ==
  IF IsSome(spec.name) THEN Unwrap(spec.name)
  ELSE Transform(spec.path) \o <<"_">> \o Transform(spec.secret)

\* ------------------------------------------- secrets.rs: Debug for Secret
\* secret_obfuscated as it would be if it returned the value (what
\* #[derive(Debug)] shows).
secret_obfuscated_plain(secret) == secret.secret

\* Secret::secret_obfuscated: one `*` for each char of the value.
secret_obfuscated(secret) == [i \in 1..Len(secret.secret) |-> "*"]

\* The pieces of the format string r#"Secret {{ name: "{}", secret: "{}" }}"#.
FmtHead == <<"S", "e", "c", "r", "e", "t", " ", "{", " ",
             "n", "a", "m", "e", ":", " ", "\"">>
FmtMid == <<"\"", ",", " ", "s", "e", "c", "r", "e", "t", ":", " ", "\"">>
FmtTail == <<"\"", " ", "}">>

\* <Secret as Debug>::fmt: what write! puts out.
fmt(secret) ==
  FmtHead \o secret.name \o FmtMid \o secret_obfuscated(secret) \o FmtTail

\* ------------------------------------------------- main.rs: Args, AuthMethod
AuthNone == [tag |-> "None", val |-> ""]
AuthGitHub(v) == [tag |-> "GitHub", val |-> v]
AuthKubernetes(v) == [tag |-> "Kubernetes", val |-> v]
AuthToken(v) == [tag |-> "Token", val |-> v]

\* auth_method as it would be with the GitHub PAT ahead of the Kubernetes role.
auth_method_github_first(a) ==
  IF IsSome(a.token) THEN AuthToken(Unwrap(a.token))
  ELSE IF IsSome(a.github_token) THEN AuthGitHub(Unwrap(a.github_token))
  ELSE IF IsSome(a.kubernetes_role) THEN AuthKubernetes(Unwrap(a.kubernetes_role))
  ELSE AuthNone

\* Args::auth_method: token, or_else kubernetes_role, or_else github_token,
\* unwrap_or None.
auth_method(a) ==
  IF IsSome(a.token) THEN AuthToken(Unwrap(a.token))
  ELSE IF IsSome(a.kubernetes_role) THEN AuthKubernetes(Unwrap(a.kubernetes_role))
  ELSE IF IsSome(a.github_token) THEN AuthGitHub(Unwrap(a.github_token))
  ELSE AuthNone

\* The credentials of the command line: each present or absent.
Credentials ==
  [token : {None, Some("tok")},
   github_token : {None, Some("pat")},
   kubernetes_role : {None, Some("role")}]

\* The rest of the command line: retry count and concurrency (clap accepts
\* any usize, 0 included).
ArgsSet == [retries : 0..MaxRetryCount, concurrency : 0..MaxConcurrency]

\* ------------------------------------------------------------ environment
\* Lines a .secrets file may hold.
LineNamed == <<"A", "=", "m", "/", "p", "#", "k">>
LineDerived == <<"m", "/", "q", "#", "k">>
LineBlank == <<" ">>
LineBadName == <<"5", "=", "m", "/", "p", "#", "k">>
SampleLines == {LineNamed, LineDerived, LineBlank, LineBadName}

RECURSIVE JoinLines(_)
JoinLines(ls) ==
  IF ls = <<>> THEN <<>>
  ELSE IF Len(ls) = 1 THEN ls[1]
  ELSE ls[1] \o <<"\n">> \o JoinLines(Tail(ls))

\* The contents a .secrets file may have.
Files == {JoinLines(ls) : ls \in UNION {[1..n -> SampleLines] : n \in 0..MaxLines}}

\* What one HTTP exchange with the vault may come to: a valid document, a
\* transport failure, a 4xx/5xx status, a document without the field, a
\* field that is not a string.
Outcomes == {"ok", "transport", "status", "missing", "wrongtype"}

\* The Error each failed exchange is turned into (`?` on reqwest::Error,
\* error_for_status, ok_or_else NotFound, ok_or_else Deserialization).
OutcomeError(o) ==
  CASE o \in {"transport", "status"} -> ErrorReqwest
    [] o = "missing" -> ErrorNotFound
    [] o = "wrongtype" -> ErrorDeserialization

\* The string the vault holds for a reference (mount/path, key).
VaultValue(spec) == <<"$">> \o spec.mount \o spec.path \o <<".">> \o spec.secret

\* The token the vault hands out at a login endpoint.
VaultToken == "client_token"

\* Secret { name, secret } as built by fetch_single_v2 / fetch_single_v1.
MakeSecret(spec) == [name |-> name(spec), secret |-> VaultValue(spec)]

\* ------------------------------------------------------------------ state
VARIABLES
  pc,            \* where main is
  args,          \* the parsed command line (retry count, concurrency)
  auth,          \* fetch_token: its auth_method, with the credentials it is made of
  secret_specs,  \* main: the references load_async returned
  token,         \* main: the Option<String> fetch_token returned
  tokAttempt,    \* retry in fetch_token: the number of the running attempt
  tokErr,        \* retry in fetch_token: the Error the running attempt failed with
  next,          \* fetch_all: index of the first reference not yet chunked
  tasks,         \* fetch_all: the future of each reference
  completed,     \* fetch_all: the futures that have completed, in completion order
  results,       \* fetch_all: the Vec<Secret> built so far
  fetched,       \* Option of what fetch_all returned
  env,           \* Option of the environment handed to execvpe
  ret,           \* Option of what main returned
  netUsed,       \* TRUE once any HTTP request has been sent
  exhausted,     \* TRUE once the retry of some reference has given up
  overtaken,     \* TRUE once a future completed before an earlier one of its chunk
  stages,        \* the stages main has started, in order
  call,          \* Option of a library function called on its own, with its arguments
  returned       \* Option of what that call returned

vars == <<pc, args, auth, secret_specs, token, tokAttempt, tokErr, next, tasks,
          completed, results, fetched, env, ret, netUsed, exhausted, overtaken,
          stages, call, returned>>

NoErr == [kind |-> ""]

\* A future that join_all has not been given yet, or has dropped.
IdleTask == [st |-> "idle", attempt |-> 0, v1n |-> 0, via |-> "",
             lastErr |-> NoErr, out |-> None]
DroppedTask == [IdleTask EXCEPT !.st = "dropped"]
\* A future whose retry has returned Ok: the loop and its counter are gone.
DoneTask == [IdleTask EXCEPT !.st = "done"]

Init ==
  /\ pc = "load"
  /\ args \in ArgsSet
  /\ auth = None
  /\ secret_specs = <<>>
  /\ token = None
  /\ tokAttempt = 0
  /\ tokErr = NoErr
  /\ next = 1
  /\ tasks = <<>>
  /\ completed = <<>>
  /\ results = <<>>
  /\ fetched = None
  /\ env = None
  /\ ret = None
  /\ netUsed = FALSE
  /\ exhausted = FALSE
  /\ overtaken = FALSE
  /\ stages = <<"parse">>
  /\ call = None
  /\ returned = None

\* ------------------------------------------------------- vault.rs: retry
\* The loop as it would be with `0..count`.
RetryAttemptsExclusive(count) == count

\* `for _ in 0..=count`: the number of attempts retry makes before giving up.
RetryAttempts(count) == count + 1

\* retry as it would be if it returned the Error of its last attempt.
RetryGiveUpLastError(lastErr) == lastErr

\* What retry returns once the loop is over; the Error of the last attempt
\* was logged and dropped.
RetryGiveUp(lastErr) == ErrorMaxRetries

\* ------------------------------------------------------- main.rs: stage 1
\* main as it would be if it printed the error of load_async and went on with
\* no references.
LoadAndGoOn(readOk, contents) ==
  /\ pc = "load"
  /\ LET r == IF readOk THEN parse(contents) ELSE Err(ErrorIO)
     IN /\ secret_specs' = IF IsOk(r) THEN r[2] ELSE <<>>
        /\ tasks' = [i \in 1..Len(secret_specs') |-> IdleTask]
        /\ ret' = IF IsOk(r) THEN ret ELSE Some(r)
        /\ pc' = "token"
        /\ stages' = Append(stages, "token")
  /\ UNCHANGED <<args, auth, token, tokAttempt, tokErr, next, completed,
                 results, fetched, env, netUsed, exhausted, overtaken>>
  /\ UNCHANGED <<call, returned>>

\* secrets::load_async: read the file, then parse it.  main prints and
\* returns the error of either.
Load(readOk, contents) ==
  /\ pc = "load"
  /\ LET r == IF readOk THEN parse(contents) ELSE Err(ErrorIO)
     IN IF IsOk(r)
        THEN /\ secret_specs' = r[2]
             /\ tasks' = [i \in 1..Len(r[2]) |-> IdleTask]
             /\ pc' = "token"
             /\ stages' = Append(stages, "token")
             /\ ret' = ret
        ELSE /\ ret' = Some(r)
             /\ pc' = "exit_err"
             /\ UNCHANGED <<secret_specs, tasks, stages>>
  /\ UNCHANGED <<args, auth, token, tokAttempt, tokErr, next, completed,
                 results, fetched, env, netUsed, exhausted, overtaken>>
  /\ UNCHANGED <<call, returned>>

\* ------------------------------------------------ vault.rs: fetch_token
\* main evaluates args.auth_method(), the argument of fetch_token.  The
\* credentials of the command line are read here and nowhere else.
SelectAuth(cred) ==
  /\ pc = "token"
  /\ auth' = Some([cred |-> cred, method |-> auth_method(cred)])
  /\ pc' = "fetch_token"
  /\ UNCHANGED <<args, secret_specs, token, tokAttempt, tokErr, next, tasks,
                 completed, results, fetched, env, ret, netUsed, exhausted,
                 overtaken, stages>>
  /\ UNCHANGED <<call, returned>>

\* The first thing an attempt of the token retry awaits: the read of the
\* service-account file (Kubernetes) or the login request (GitHub).
TokenAttemptStart(am) == IF am.tag = "Kubernetes" THEN "token_file" ELSE "token_req"

\* fetch_token as it would be if only AuthMethod::None skipped the login.
FetchTokenAlwaysLogin ==
  /\ pc = "fetch_token"
  /\ LET am == Unwrap(auth).method
     IN CASE am.tag = "None" ->
               /\ token' = None
               /\ auth' = None
               /\ pc' = "fetch"
               /\ stages' = Append(stages, "fetch")
               /\ UNCHANGED <<tokAttempt, netUsed>>
          [] am.tag \in {"GitHub", "Kubernetes", "Token"} ->
               /\ tokAttempt' = 1
               /\ pc' = TokenAttemptStart(am)
               /\ netUsed' = (netUsed \/ am.tag # "Kubernetes")
               /\ UNCHANGED <<token, auth, stages>>
  /\ UNCHANGED <<args, secret_specs, tokErr, next, tasks, completed, results,
                 fetched, env, ret, exhausted, overtaken>>
  /\ UNCHANGED <<call, returned>>

\* fetch_token up to its first await, or to its end (None, Token), where its
\* auth_method is dropped.
FetchToken ==
  /\ pc = "fetch_token"
  /\ LET am == Unwrap(auth).method
     IN CASE am.tag = "None" ->
               /\ token' = None
               /\ auth' = None
               /\ pc' = "fetch"
               /\ stages' = Append(stages, "fetch")
               /\ UNCHANGED <<tokAttempt, netUsed>>
          [] am.tag = "Token" ->
               /\ token' = Some(am.val)
               /\ auth' = None
               /\ pc' = "fetch"
               /\ stages' = Append(stages, "fetch")
               /\ UNCHANGED <<tokAttempt, netUsed>>
          [] am.tag \in {"GitHub", "Kubernetes"} ->
               /\ tokAttempt' = 1
               /\ pc' = TokenAttemptStart(am)
               /\ netUsed' = (netUsed \/ am.tag = "GitHub")
               /\ UNCHANGED <<token, auth, stages>>
  /\ UNCHANGED <<args, secret_specs, tokErr, next, tasks, completed, results,
                 fetched, env, ret, exhausted, overtaken>>
  /\ UNCHANGED <<call, returned>>

\* fetch_token_kubernetes: tokio::fs::read_to_string of the service-account
\* token.  An unreadable file is Error::IO, returned to retry like any other
\* failure of the attempt; a readable one is followed by the login request.
TokenFileRead(readOk) ==
  /\ pc = "token_file"
  /\ IF readOk
     THEN /\ pc' = "token_req"
          /\ netUsed' = TRUE
          /\ tokErr' = tokErr
     ELSE /\ pc' = "token_sleep"
          /\ tokErr' = ErrorIO
          /\ netUsed' = netUsed
  /\ UNCHANGED <<args, auth, secret_specs, token, tokAttempt, next, tasks,
                 completed, results, fetched, env, ret, exhausted, overtaken,
                 stages>>
  /\ UNCHANGED <<call, returned>>

\* The login request of fetch_token_github / fetch_token_kubernetes answers.
\* Ok ends retry and fetch_token (their locals are gone); an error is logged
\* by retry, which sleeps.
TokenRespond(o) ==
  /\ pc = "token_req"
  /\ IF o = "ok"
     THEN /\ token' = Some(VaultToken)
          /\ auth' = None
          /\ pc' = "fetch"
          /\ stages' = Append(stages, "fetch")
          /\ tokAttempt' = 0
          /\ tokErr' = NoErr
     ELSE /\ pc' = "token_sleep"
          /\ tokErr' = OutcomeError(o)
          /\ UNCHANGED <<token, auth, stages, tokAttempt>>
  /\ UNCHANGED <<args, secret_specs, next, tasks, completed, results, fetched,
                 env, ret, netUsed, exhausted, overtaken>>
  /\ UNCHANGED <<call, returned>>

\* tokio::time::sleep(delay) of the token retry is over: the next attempt
\* starts, or the loop is over and main prints and returns the error.
TokenSleepDone ==
  /\ pc = "token_sleep"
  /\ IF tokAttempt < RetryAttempts(args.retries)
     THEN /\ tokAttempt' = tokAttempt + 1
          /\ tokErr' = NoErr
          /\ pc' = TokenAttemptStart(Unwrap(auth).method)
          /\ netUsed' = (netUsed \/ Unwrap(auth).method.tag = "GitHub")
          /\ ret' = ret
     ELSE /\ ret' = Some(Err(RetryGiveUp(tokErr)))
          /\ pc' = "exit_err"
          /\ UNCHANGED <<tokAttempt, tokErr, netUsed>>
  /\ UNCHANGED <<args, auth, secret_specs, token, next, tasks, completed,
                 results, fetched, env, exhausted, overtaken, stages>>
  /\ UNCHANGED <<call, returned>>

\* -------------------------------------------------- vault.rs: fetch_all
\* chunks as it would be if a chunk held one reference too many.
ChunkEndOneMore(start, n, size) == Min(start + size, n)

\* secrets.chunks(size): index of the last reference of the chunk that starts
\* at start, in a slice of n references.
ChunkEnd(start, n, size) == Min(start + size - 1, n)

\* The references of the chunk fetch_all is working on.
Chunk == next..ChunkEnd(next, Len(secret_specs), args.concurrency)

\* secrets.chunks(0) panics ("chunk size must be non-zero").
FetchAllPanic ==
  /\ pc = "fetch"
  /\ args.concurrency = 0
  /\ pc' = "panic"
  /\ UNCHANGED <<args, auth, secret_specs, token, tokAttempt, tokErr, next,
                 tasks, completed, results, fetched, env, ret, netUsed,
                 exhausted, overtaken, stages>>
  /\ UNCHANGED <<call, returned>>

\* The loop of fetch_all takes the next chunk: join_all polls the future of
\* each of its references, which sends its first v2 request.
FetchAllStartChunk ==
  /\ pc = "fetch"
  /\ args.concurrency > 0
  /\ next <= Len(secret_specs)
  /\ tasks' = [i \in DOMAIN tasks |->
                 IF i \in Chunk
                 THEN [IdleTask EXCEPT !.st = "v2", !.attempt = 1]
                 ELSE tasks[i]]
  /\ netUsed' = TRUE
  /\ pc' = "join"
  /\ UNCHANGED <<args, auth, secret_specs, token, tokAttempt, tokErr, next,
                 completed, results, fetched, env, ret, exhausted, overtaken,
                 stages>>
  /\ UNCHANGED <<call, returned>>

\* fetch_all as it would be if it handed the futures of a chunk to the runtime
\* and returned what it has without awaiting them.
FetchAllReturnEarly ==
  /\ pc \in {"fetch", "join"}
  /\ args.concurrency > 0
  /\ pc = "fetch" => next > Len(secret_specs)
  /\ fetched' = Some(Ok(results))
  /\ pc' = "spawn"
  /\ stages' = Append(stages, "spawn")
  /\ UNCHANGED <<args, auth, secret_specs, token, tokAttempt, tokErr, next,
                 tasks, completed, results, env, ret, netUsed, exhausted,
                 overtaken>>
  /\ UNCHANGED <<call, returned>>

\* The loop of fetch_all is over: Ok(results) goes back to main, which moves
\* on to process::spawn.
FetchAllReturn ==
  /\ pc = "fetch"
  /\ args.concurrency > 0
  /\ next > Len(secret_specs)
  /\ fetched' = Some(Ok(results))
  /\ pc' = "spawn"
  /\ stages' = Append(stages, "spawn")
  /\ UNCHANGED <<args, auth, secret_specs, token, tokAttempt, tokErr, next,
                 tasks, completed, results, env, ret, netUsed, exhausted,
                 overtaken>>
  /\ UNCHANGED <<call, returned>>

\* The future of reference i completes: it is the next of `completed`, and it
\* overtakes every earlier future of its chunk that is still running.
Complete(i) ==
  /\ completed' = Append(completed, i)
  /\ overtaken' = (overtaken \/ \E j \in Chunk : j < i /\ tasks[j].st # "done")

\* fetch_single as it would be if falling back to v1 took one of the
\* attempts of retry.
V2RespondFallbackCounts(i, o) ==
  /\ pc = "join"
  /\ tasks[i].st = "v2"
  /\ IF o = "ok"
     THEN /\ tasks' = [tasks EXCEPT ![i] =
                         [DoneTask EXCEPT !.via = "v2",
                                   !.out = Some(Ok(MakeSecret(secret_specs[i])))]]
          /\ Complete(i)
     ELSE /\ tasks' = [tasks EXCEPT ![i] =
                         [@ EXCEPT !.st = "v1", !.v1n = @ + 1,
                                   !.attempt = @ + 1]]
          /\ UNCHANGED <<completed, overtaken>>
  /\ UNCHANGED <<pc, args, auth, secret_specs, token, tokAttempt, tokErr, next,
                 results, fetched, env, ret, netUsed, exhausted, stages>>
  /\ UNCHANGED <<call, returned>>

\* fetch_single as it would be without the fallback: an error of the v2
\* request is returned to retry.
V2RespondNoFallback(i, o) ==
  /\ pc = "join"
  /\ tasks[i].st = "v2"
  /\ IF o = "ok"
     THEN /\ tasks' = [tasks EXCEPT ![i] =
                         [DoneTask EXCEPT !.via = "v2",
                                   !.out = Some(Ok(MakeSecret(secret_specs[i])))]]
          /\ Complete(i)
     ELSE /\ tasks' = [tasks EXCEPT ![i] =
                         [@ EXCEPT !.st = "sleep", !.lastErr = OutcomeError(o)]]
          /\ UNCHANGED <<completed, overtaken>>
  /\ UNCHANGED <<pc, args, auth, secret_specs, token, tokAttempt, tokErr, next,
                 results, fetched, env, ret, netUsed, exhausted, stages>>
  /\ UNCHANGED <<call, returned>>

\* fetch_single, first half: the v2 request of reference i answers.  Ok is
\* returned at once (and ends retry); any error is logged and the v1 request
\* is sent.
V2Respond(i, o) ==
  /\ pc = "join"
  /\ tasks[i].st = "v2"
  /\ IF o = "ok"
     THEN /\ tasks' = [tasks EXCEPT ![i] =
                         [DoneTask EXCEPT !.via = "v2",
                                   !.out = Some(Ok(MakeSecret(secret_specs[i])))]]
          /\ Complete(i)
     ELSE /\ tasks' = [tasks EXCEPT ![i] =
                         [@ EXCEPT !.st = "v1", !.v1n = @ + 1]]
          /\ UNCHANGED <<completed, overtaken>>
  /\ UNCHANGED <<pc, args, auth, secret_specs, token, tokAttempt, tokErr, next,
                 results, fetched, env, ret, netUsed, exhausted, stages>>
  /\ UNCHANGED <<call, returned>>

\* retry as it would be if it returned MaxRetries as soon as the final
\* attempt has failed, without the sleep that follows it.
V1RespondNoTrailingSleep(i, o) ==
  /\ pc = "join"
  /\ tasks[i].st = "v1"
  /\ IF o = "ok"
     THEN /\ tasks' = [tasks EXCEPT ![i] =
                         [DoneTask EXCEPT !.via = "v1",
                                   !.out = Some(Ok(MakeSecret(secret_specs[i])))]]
          /\ Complete(i)
          /\ UNCHANGED exhausted
     ELSE IF tasks[i].attempt < RetryAttempts(args.retries)
     THEN /\ tasks' = [tasks EXCEPT ![i] = [@ EXCEPT !.st = "sleep"]]
          /\ UNCHANGED <<completed, overtaken, exhausted>>
     ELSE /\ tasks' = [tasks EXCEPT ![i] =
                         [@ EXCEPT !.st = "done",
                                   !.out = Some(Err(RetryGiveUp(OutcomeError(o))))]]
          /\ Complete(i)
          /\ exhausted' = TRUE
  /\ UNCHANGED <<pc, args, auth, secret_specs, token, tokAttempt, tokErr, next,
                 results, fetched, env, ret, netUsed, stages>>
  /\ UNCHANGED <<call, returned>>

\* fetch_single, second half: the v1 request of reference i answers.  Ok is
\* returned (and ends retry); an error is logged and returned to retry, which
\* logs it and sleeps.
V1Respond(i, o) ==
  /\ pc = "join"
  /\ tasks[i].st = "v1"
  /\ IF o = "ok"
     THEN /\ tasks' = [tasks EXCEPT ![i] =
                         [DoneTask EXCEPT !.via = "v1",
                                   !.out = Some(Ok(MakeSecret(secret_specs[i])))]]
          /\ Complete(i)
     ELSE \* err is dropped at the end of retry's match arm; lastErr keeps the
          \* one of the final attempt, to compare with what retry returns.
          /\ tasks' = [tasks EXCEPT ![i] =
                         [@ EXCEPT !.st = "sleep",
                                   !.lastErr =
                                     IF tasks[i].attempt < RetryAttempts(args.retries)
                                     THEN NoErr ELSE OutcomeError(o)]]
          /\ UNCHANGED <<completed, overtaken>>
  /\ UNCHANGED <<pc, args, auth, secret_specs, token, tokAttempt, tokErr, next,
                 results, fetched, env, ret, netUsed, exhausted, stages>>
  /\ UNCHANGED <<call, returned>>

\* retry as it would be with `loop` in place of `for _ in 0..=count`: after
\* the sleep comes another attempt, always.
TaskSleepDoneForever(i) ==
  /\ pc = "join"
  /\ tasks[i].st = "sleep"
  /\ tasks' = [tasks EXCEPT ![i] =
                 [@ EXCEPT !.st = "v2", !.v1n = tasks[i].attempt - 1,
                           !.lastErr = NoErr]]
  /\ UNCHANGED <<completed, overtaken, exhausted>>
  /\ UNCHANGED <<pc, args, auth, secret_specs, token, tokAttempt, tokErr, next,
                 results, fetched, env, ret, netUsed, stages>>
  /\ UNCHANGED <<call, returned>>

\* tokio::time::sleep(delay) of the retry of reference i is over: the next
\* attempt sends its v2 request, or the loop is over and the future completes
\* with the error of retry.
TaskSleepDone(i) ==
  /\ pc = "join"
  /\ tasks[i].st = "sleep"
  /\ IF tasks[i].attempt < RetryAttempts(args.retries)
     THEN /\ tasks' = [tasks EXCEPT ![i] =
                         [@ EXCEPT !.st = "v2", !.attempt = @ + 1,
                                   !.lastErr = NoErr]]
          /\ UNCHANGED <<completed, overtaken, exhausted>>
     ELSE /\ tasks' = [tasks EXCEPT ![i] =
                         [@ EXCEPT !.st = "done",
                                   !.out = Some(Err(RetryGiveUp(tasks[i].lastErr)))]]
          /\ Complete(i)
          /\ exhausted' = TRUE
  /\ UNCHANGED <<pc, args, auth, secret_specs, token, tokAttempt, tokErr, next,
                 results, fetched, env, ret, netUsed, stages>>
  /\ UNCHANGED <<call, returned>>

\* join_all as it would be if it yielded the outputs as the futures complete.
join_all_completion_order(ts, done, lo, hi) ==
  LET d == SelectSeq(done, LAMBDA i : lo <= i /\ i <= hi)
  IN [k \in 1..Len(d) |-> Unwrap(ts[d[k]].out)]

\* What join_all resolves to: the output of every future of lo..hi, in the
\* order the futures were given, whatever the order `done` they completed in.
join_all(ts, done, lo, hi) == [k \in 1..(hi - lo + 1) |-> Unwrap(ts[lo + k - 1].out)]

\* The loop as it would be if it skipped an Err instead of returning it.
RECURSIVE PushAllSkipErr(_, _, _)
PushAllSkipErr(acc, res, k) ==
  IF k > Len(res) THEN Ok(acc)
  ELSE IF IsErr(res[k]) THEN PushAllSkipErr(acc, res, k + 1)
  ELSE PushAllSkipErr(Append(acc, res[k][2]), res, k + 1)

\* `for r in res.into_iter() { results.push(r?) }`: the first Err of res is
\* returned, else every value is pushed.
RECURSIVE PushAll(_, _, _)
PushAll(acc, res, k) ==
  IF k > Len(res) THEN Ok(acc)
  ELSE IF IsErr(res[k]) THEN res[k]
  ELSE PushAll(Append(acc, res[k][2]), res, k + 1)

\* The join as try_join_all would make it: the first future that fails ends
\* it, the others being dropped where they are.
JoinChunkFailFast ==
  /\ pc = "join"
  /\ LET hi == ChunkEnd(next, Len(secret_specs), args.concurrency)
         failed == {i \in Chunk : tasks[i].st = "done" /\ IsErr(Unwrap(tasks[i].out))}
     IN IF failed # {}
        THEN /\ fetched' = Some(Unwrap(tasks[CHOOSE i \in failed : TRUE].out))
             /\ ret' = fetched'
             /\ pc' = "exit_err"
             /\ UNCHANGED <<results, next, tasks, completed>>
        ELSE /\ \A i \in Chunk : tasks[i].st = "done"
             /\ results' = PushAll(results, join_all(tasks, completed, next, hi), 1)[2]
             /\ next' = hi + 1
             /\ tasks' = [i \in DOMAIN tasks |->
                            IF i \in Chunk THEN DroppedTask ELSE tasks[i]]
             /\ completed' = <<>>
             /\ pc' = "fetch"
             /\ UNCHANGED <<fetched, ret>>
  /\ UNCHANGED <<args, auth, secret_specs, token, tokAttempt, tokErr, env,
                 netUsed, exhausted, overtaken, stages>>
  /\ UNCHANGED <<call, returned>>

\* Every future of the chunk has completed: join_all resolves and drops the
\* futures, and the results are pushed or the first error is returned to
\* main, which prints and returns it.
JoinChunk ==
  /\ pc = "join"
  /\ \A i \in Chunk : tasks[i].st = "done"
  /\ LET hi == ChunkEnd(next, Len(secret_specs), args.concurrency)
         r == PushAll(results, join_all(tasks, completed, next, hi), 1)
     IN IF IsOk(r)
        THEN /\ results' = r[2]
             /\ next' = hi + 1
             /\ tasks' = [i \in DOMAIN tasks |->
                            IF i \in Chunk THEN DroppedTask ELSE tasks[i]]
             /\ completed' = <<>>
             /\ pc' = "fetch"
             /\ UNCHANGED <<fetched, ret>>
        ELSE /\ fetched' = Some(r)
             /\ ret' = Some(r)
             /\ pc' = "exit_err"
             /\ UNCHANGED <<results, next, tasks, completed>>
  /\ UNCHANGED <<args, auth, secret_specs, token, tokAttempt, tokErr, env,
                 netUsed, exhausted, overtaken, stages>>
  /\ UNCHANGED <<call, returned>>

\* ------------------------------------------------- process.rs: spawn
\* An entry of the environment, `format!("{}={}", name, value)`.
FormatVar(k, v) == k \o <<"=">> \o v

\* Environments the process may have inherited, as (key, value) pairs.
InheritedEnvs == {<<>>, << <<<<"A">>, <<"x">>>> >>}

\* c_env as it would be if the inherited entries were copied whatever
\* clear_env says.
BuildEnvAlwaysInherit(clear_env, inherited, secrets) ==
  [k \in 1..Len(inherited) |-> FormatVar(inherited[k][1], inherited[k][2])]
  \o [k \in 1..Len(secrets) |-> FormatVar(secrets[k].name, secrets[k].secret)]

\* c_env: the inherited entries unless clear_env, then one entry per secret,
\* pushed in order.
BuildEnv(clear_env, inherited, secrets) ==
  (IF clear_env THEN <<>>
   ELSE [k \in 1..Len(inherited) |-> FormatVar(inherited[k][1], inherited[k][2])])
  \o [k \in 1..Len(secrets) |-> FormatVar(secrets[k].name, secrets[k].secret)]

\* The secrets spawn logs "already exists and will be overwritten" for, by
\* their place in the list: those whose entry `name=value` is equal, as a
\* whole, to an entry c_env holds when the secret's turn comes.
SpawnWarned(clear_env, inherited, secrets) ==
  {k \in 1..Len(secrets) :
     LET c_env == BuildEnv(clear_env, inherited, SubSeq(secrets, 1, k - 1))
         c_var == FormatVar(secrets[k].name, secrets[k].secret)
     IN \E e \in 1..Len(c_env) : c_env[e] = c_var}

\* process::spawn: build c_env and call execvpe, which replaces the process
\* image or fails (Error::Execution, returned by main).  The strings of the
\* model hold no NUL, so every CString::new succeeds.
Spawn(clear_env, inherited, execOk) ==
  /\ pc = "spawn"
  /\ env' = Some(BuildEnv(clear_env, inherited, Unwrap(fetched)[2]))
  /\ IF execOk
     THEN /\ pc' = "exec"
          /\ ret' = ret
     ELSE /\ pc' = "exit_err"
          /\ ret' = Some(Err(ErrorExecution))
  /\ UNCHANGED <<args, auth, secret_specs, token, tokAttempt, tokErr, next,
                 tasks, completed, results, fetched, netUsed, exhausted,
                 overtaken, stages>>
  /\ UNCHANGED <<call, returned>>

\* ------------------------------------------------------- specification
Next ==
  \/ \E readOk \in BOOLEAN, contents \in Files : Load(readOk, contents)
  \/ \E cred \in Credentials : SelectAuth(cred)
  \/ FetchToken
  \/ \E readOk \in BOOLEAN : TokenFileRead(readOk)
  \/ \E o \in Outcomes : TokenRespond(o)
  \/ TokenSleepDone
  \/ FetchAllPanic
  \/ FetchAllStartChunk
  \/ FetchAllReturn
  \/ \E i \in DOMAIN tasks, o \in Outcomes : V2Respond(i, o)
  \/ \E i \in DOMAIN tasks, o \in Outcomes : V1Respond(i, o)
  \/ \E i \in DOMAIN tasks : TaskSleepDone(i)
  \/ JoinChunk
  \/ \E clear_env \in BOOLEAN, inherited \in InheritedEnvs, execOk \in BOOLEAN :
       Spawn(clear_env, inherited, execOk)

Spec == Init /\ [][Next]_vars

\* ------------------------------------------- the functions on their own
\* parse, SecretSpec::name, process::spawn and the Debug of Secret are also
\* called on their own, as the tests of secrets.rs call them: `call` holds
\* the function and its arguments, `returned` what came back.

\* Lines the parser is tried on: with and without a name, blank, and one for
\* each way a line can be wrong; a path and a key with characters that are
\* not alphanumeric, and a key with a letter outside ASCII.
LineEmpty == <<>>
LineTabs == <<"\t", " ">>
LineEmptyName == <<"=", "m", "/", "p", "#", "k">>
LineSpecial == <<"m", "/", "p", "@", "q", "#", "k", "#", "x">>
LineUnicode == <<"m", "/", "p", "#", EAcute>>
LineJunk == <<"j", "u", "n", "k">>
LineNoMount == <<"/", "p", "#", "k">>
LineNoPath == <<"m", "/", "#", "k">>
LineNoKey == <<"m", "/", "p", "#">>
ParseSampleLines ==
  {LineNamed, LineDerived, LineBlank, LineBadName, LineEmpty, LineTabs, LineEmptyName,
   LineSpecial, LineUnicode, LineJunk, LineNoMount, LineNoPath, LineNoKey}

\* The characters of the grammar, one of each kind, and every line made of
\* them.
LineAlphabet == {"a", "5", "=", "/", "#"}
AllLines == UNION {[1..n -> LineAlphabet] : n \in 0..MaxLineLen}

\* parse(contents): the file is given by its lines.
ParseCalls ==
  {[fn |-> "parse", lines |-> ls] :
     ls \in UNION {[1..n -> ParseSampleLines] : n \in 0..MaxLines}
            \cup {<<l>> : l \in AllLines}}

\* spawn(cmd, args, secrets, opts) in a process with an inherited
\* environment: secrets that share a name or not, with the value of an
\* inherited variable or another.
SecretsGiven ==
  UNION {[1..n -> [name : {<<"A">>, <<"B">>}, secret : {<<"x">>, <<"y">>}]] :
           n \in 0..MaxSecrets}
InheritedGiven ==
  {<<>>, << <<<<"A">>, <<"x">>>> >>, << <<<<"C">>, <<"x">>>> >>,
   << <<<<"A">>, <<"y">>>>, <<<<"C">>, <<"x">>>> >>}
SpawnCalls ==
  [fn : {"spawn"}, clear_env : BOOLEAN, inherited : InheritedGiven,
   secrets : SecretsGiven]

\* format!("{:?}", secret) of two secrets: values of any characters, one
\* outside ASCII among them, and of any length up to MaxValueLen.
ValuesGiven == UNION {[1..n -> {"x", "y", EAcute}] : n \in 0..MaxValueLen}
FmtCalls ==
  [fn : {"fmt"},
   a : [name : {<<"A">>, <<"B">>}, secret : ValuesGiven],
   b : [name : {<<"A">>, <<"B">>}, secret : ValuesGiven]]

\* fetch_all for one reference, as main calls it: the reference, the string
\* the vault holds for it, the retry count, and for every attempt the outcome
\* of the KV v2 exchange and of the KV v1 exchange.
SpecsGiven == {parse(JoinLines(<<l>>))[2][1] : l \in {LineNamed, LineDerived}}
StoreValues == {<<"$", "1">>, <<"$", "2">>}
FetchCalls ==
  UNION {[fn : {"fetch"}, spec : SpecsGiven, value : StoreValues, retries : {n},
          outcomes : [1..(n + 1) -> Outcomes \X Outcomes]] :
           n \in 0..MaxRetryCount}

LibCalls == ParseCalls \cup SpawnCalls \cup FmtCalls \cup FetchCalls

LibInit ==
  /\ pc = "lib"
  /\ call \in {Some(c) : c \in LibCalls}
  /\ returned = None
  /\ args = [retries |-> 0, concurrency |-> 1]
  /\ auth = None
  /\ secret_specs = <<>>
  /\ token = None
  /\ tokAttempt = 0
  /\ tokErr = NoErr
  /\ next = 1
  /\ tasks = <<>>
  /\ completed = <<>>
  /\ results = <<>>
  /\ fetched = None
  /\ env = None
  /\ ret = None
  /\ netUsed = FALSE
  /\ exhausted = FALSE
  /\ overtaken = FALSE
  /\ stages = <<>>

\* parse(&contents) is called and returns.
ParseCall ==
  /\ pc = "lib"
  /\ Unwrap(call).fn = "parse"
  /\ returned' = Some([value |-> parse(JoinLines(Unwrap(call).lines))])
  /\ pc' = "parsed"
  /\ UNCHANGED <<args, auth, secret_specs, token, tokAttempt, tokErr, next,
                 tasks, completed, results, fetched, env, ret, netUsed,
                 exhausted, overtaken, stages, call>>

\* name() is called on every SecretSpec parse returned, as fetch_single_v2
\* and fetch_single_v1 call it.
NameCall ==
  /\ pc = "parsed"
  /\ IsOk(Unwrap(returned).value)
  /\ LET specs == Unwrap(returned).value[2]
     IN returned' = Some([value |-> Unwrap(returned).value,
                          names |-> [i \in 1..Len(specs) |-> name(specs[i])]])
  /\ pc' = "named"
  /\ UNCHANGED <<args, auth, secret_specs, token, tokAttempt, tokErr, next,
                 tasks, completed, results, fetched, env, ret, netUsed,
                 exhausted, overtaken, stages, call>>

\* The body of the vault's response: the document of the path, which holds
\* the value whenever the vault answered with one (also when the key asked
\* for is another one or the value is not a string), or none.
ResponseBody(o, value) ==
  IF o \in {"ok", "missing", "wrongtype"} THEN <<"{">> \o value \o <<"}">> ELSE <<>>

\* vault_url of fetch_single_v2 and of fetch_single_v1.
VaultHost == <<"https://vault">>
vault_url(ver, spec) ==
  IF ver = "v2"
    THEN VaultHost \o <<"/v1/">> \o spec.mount \o <<"/data/">> \o spec.path
    ELSE VaultHost \o <<"/v1/">> \o spec.mount \o <<"/">> \o spec.path

\* Display of the Error a failed exchange is turned into: the reqwest error
\* (its kind and the url), the NotFound message with the key, the fixed
\* Deserialization message (its variant's prefix is not in error.rs).  result,
\* the body, is in scope and not used.
FetchErrorDisplayWithBody(o, ver, spec, result) ==
  CASE o = "transport" ->
         <<"Reqwest error: ", "error sending request for url (">>
           \o vault_url(ver, spec) \o <<")">> \o result
    [] o = "status" ->
         <<"Reqwest error: ", "HTTP status error for url (">>
           \o vault_url(ver, spec) \o <<")">> \o result
    [] o = "missing" ->
         <<"Not found: ", "vault response does not contain ",
           IF ver = "v2" THEN ".data.data." ELSE ".data.">> \o spec.secret \o result
    [] o = "wrongtype" ->
         <<"vault response secret cannot be made into a string or is empty">>
           \o result
FetchErrorDisplay(o, ver, spec, result) ==
  CASE o = "transport" ->
         <<"Reqwest error: ", "error sending request for url (">>
           \o vault_url(ver, spec) \o <<")">>
    [] o = "status" ->
         <<"Reqwest error: ", "HTTP status error for url (">>
           \o vault_url(ver, spec) \o <<")">>
    [] o = "missing" ->
         <<"Not found: ", "vault response does not contain ",
           IF ver = "v2" THEN ".data.data." ELSE ".data.">> \o spec.secret
    [] o = "wrongtype" ->
         <<"vault response secret cannot be made into a string or is empty">>

\* Display of Error::MaxRetries.
MaxRetriesDisplay == <<"Max number of retries reached">>

\* The messages of the fetch path, each with its arguments.
InfoFetching(ver, spec) ==
  <<"INFO ", "fetching ", ver, " secret '">> \o name(spec) \o <<"' from '">>
    \o vault_url(ver, spec) \o <<"'">>
WarnCouldNotFetch(ver, spec, err) ==
  <<"WARN ", "could not fetch ", ver, " secret '">> \o name(spec)
    \o <<"' from vault: ">> \o err
WarnRetrying(err) == <<"WARN ", "operation failed, retrying: ">> \o err
PrintErrorFetching(err) == <<"Error fetching secrets: ">> \o err

\* The warning of spawn for a secret whose entry is already in c_env.
WarnOverwritten(secret) ==
  <<"WARN ", "env variable '">> \o secret.name
    \o <<"' already exists and will be overwritten">>

\* retry(|| fetch_single(host, token, s), retries, delay) from attempt k on,
\* with the messages logged so far: what it returns and everything logged.
RECURSIVE retry_fetch_single(_, _, _)
retry_fetch_single(c, k, log) ==
  IF k > RetryAttempts(c.retries)
    THEN [value |-> Err(RetryGiveUp(NoErr)), log |-> log]
    ELSE LET o2 == c.outcomes[k][1]
             o1 == c.outcomes[k][2]
             secret == [name |-> name(c.spec), secret |-> c.value]
             l2 == Append(log, InfoFetching("v2", c.spec))
             e2 == FetchErrorDisplay(o2, "v2", c.spec, ResponseBody(o2, c.value))
             l1 == l2 \o <<WarnCouldNotFetch("v2", c.spec, e2),
                           InfoFetching("v1", c.spec)>>
             e1 == FetchErrorDisplay(o1, "v1", c.spec, ResponseBody(o1, c.value))
         IN IF o2 = "ok" THEN [value |-> Ok(secret), log |-> l2]
            ELSE IF o1 = "ok" THEN [value |-> Ok(secret), log |-> l1]
            ELSE retry_fetch_single(c, k + 1,
                   l1 \o <<WarnCouldNotFetch("v1", c.spec, e1), WarnRetrying(e1)>>)

\* fetch_all of the one reference and main's match on it: the result, and
\* the messages logged and printed.
FetchLogged(c) ==
  LET r == retry_fetch_single(c, 1, <<>>)
  IN [value |-> r.value,
      log |-> IF IsErr(r.value)
                THEN Append(r.log, PrintErrorFetching(MaxRetriesDisplay))
                ELSE r.log]

\* What spawn logs: one warning for every secret warned about, in the order
\* of the secrets.
SpawnLog(clear_env, inherited, secrets) ==
  LET w == SpawnWarned(clear_env, inherited, secrets)
      idx == SelectSeq([k \in 1..Len(secrets) |-> k], LAMBDA k : k \in w)
  IN [j \in 1..Len(idx) |-> WarnOverwritten(secrets[idx[j]])]

FetchCall ==
  /\ pc = "lib"
  /\ Unwrap(call).fn = "fetch"
  /\ returned' = Some(FetchLogged(Unwrap(call)))
  /\ pc' = "fetched"
  /\ UNCHANGED <<args, auth, secret_specs, token, tokAttempt, tokErr, next,
                 tasks, completed, results, fetched, env, ret, netUsed,
                 exhausted, overtaken, stages, call>>

\* spawn is called: it builds c_env, logging its warnings, and calls execvpe,
\* which replaces the process (nothing is returned) or fails.
SpawnCall(execOk) ==
  /\ pc = "lib"
  /\ Unwrap(call).fn = "spawn"
  /\ LET c == Unwrap(call)
     IN returned' =
          Some([c_env |-> BuildEnv(c.clear_env, c.inherited, c.secrets),
                warned |-> SpawnWarned(c.clear_env, c.inherited, c.secrets),
                log |-> SpawnLog(c.clear_env, c.inherited, c.secrets),
                value |-> IF execOk THEN None ELSE Some(Err(ErrorExecution))])
  /\ pc' = "spawned"
  /\ UNCHANGED <<args, auth, secret_specs, token, tokAttempt, tokErr, next,
                 tasks, completed, results, fetched, env, ret, netUsed,
                 exhausted, overtaken, stages, call>>

\* The two secrets are formatted with {:?}.
FmtCall ==
  /\ pc = "lib"
  /\ Unwrap(call).fn = "fmt"
  /\ returned' = Some([value |-> <<fmt(Unwrap(call).a), fmt(Unwrap(call).b)>>])
  /\ pc' = "formatted"
  /\ UNCHANGED <<args, auth, secret_specs, token, tokAttempt, tokErr, next,
                 tasks, completed, results, fetched, env, ret, netUsed,
                 exhausted, overtaken, stages, call>>

LibNext ==
  \/ ParseCall
  \/ NameCall
  \/ \E execOk \in BOOLEAN : SpawnCall(execOk)
  \/ FmtCall
  \/ FetchCall

LibSpec == LibInit /\ [][LibNext]_vars

\* The steps of fetch_all and of the futures it awaits: the runtime polls
\* them, every request is answered and every sleep ends.
FetchAllNext ==
  \/ FetchAllStartChunk
  \/ FetchAllReturn
  \/ \E i \in DOMAIN tasks, o \in Outcomes : V2Respond(i, o)
  \/ \E i \in DOMAIN tasks, o \in Outcomes : V1Respond(i, o)
  \/ \E i \in DOMAIN tasks : TaskSleepDone(i)
  \/ JoinChunk

\* fetch_all is called, as main calls it after fetch_token: any references a
\* .secrets file parses to, any retry count, a concurrency of one or more.
\* No credentials were given (token is None): the token goes into a header
\* of each request and into nothing else.
FetchAllInit ==
  /\ pc = "fetch"
  /\ args \in [retries : 0..MaxRetryCount, concurrency : 1..MaxConcurrency]
  /\ auth = None
  /\ secret_specs \in {parse(f)[2] : f \in {g \in Files : IsOk(parse(g))}}
  /\ token = None
  /\ tokAttempt = 0
  /\ tokErr = NoErr
  /\ next = 1
  /\ tasks = [i \in 1..Len(secret_specs) |-> IdleTask]
  /\ completed = <<>>
  /\ results = <<>>
  /\ fetched = None
  /\ env = None
  /\ ret = None
  /\ netUsed = FALSE
  /\ exhausted = FALSE
  /\ overtaken = FALSE
  /\ stages = <<"parse", "token", "fetch">>
  /\ call = None
  /\ returned = None

\* fetch_all under a runtime that keeps polling it, with a vault that answers
\* every request and timers that fire.
FetchAllSpec == FetchAllInit /\ [][FetchAllNext]_vars /\ WF_vars(FetchAllNext)

\* ------------------------------------------------------------- properties
\* The references whose fetch (request or retry delay) is in flight.
InFlight == {i \in DOMAIN tasks : tasks[i].st \in {"v2", "v1", "sleep"}}

\* C1: when fetch_all succeeds it returns one secret per reference, the i-th
\* being the secret of the i-th reference (its name, the vault's value for
\* it), whatever the chunk size, the completion order and the retries; the
\* secrets pushed so far are always those of the first references.
OutputOrderIsInputOrder ==
  /\ Len(results) <= Len(secret_specs)
  /\ \A i \in 1..Len(results) :
       /\ results[i].name = name(secret_specs[i])
       /\ results[i].secret = VaultValue(secret_specs[i])
  /\ (IsSome(fetched) /\ IsOk(Unwrap(fetched))) =>
       LET out == Unwrap(fetched)[2]
       IN /\ Len(out) = Len(secret_specs)
          /\ \A i \in 1..Len(out) :
               /\ out[i].name = name(secret_specs[i])
               /\ out[i].secret = VaultValue(secret_specs[i])

\* fetch_all has returned three secrets fetched in chunks of two, the second
\* future of the first chunk having completed before the first.
OutputOrderWitness ==
  /\ IsSome(fetched) /\ IsOk(Unwrap(fetched))
  /\ args.concurrency = 2
  /\ args.retries = 1
  /\ Len(secret_specs) = 3
  /\ name(secret_specs[1]) # name(secret_specs[2])
  /\ overtaken

\* C2: once the retry of a reference has given up, fetch_all never returns a
\* list of secrets: what it returns is an error, main goes no further, and a
\* list it returns is never shorter than the list of references.
NoPartialSuccess ==
  /\ (exhausted /\ IsSome(fetched)) => IsErr(Unwrap(fetched))
  /\ exhausted => pc \in {"join", "exit_err"}
  /\ (IsSome(fetched) /\ IsOk(Unwrap(fetched))) =>
       Len(Unwrap(fetched)[2]) = Len(secret_specs)

\* fetch_all has returned an error although the first chunk had been fetched
\* and pushed.
NoPartialSuccessWitness ==
  /\ exhausted
  /\ IsSome(fetched) /\ IsErr(Unwrap(fetched))
  /\ Len(results) > 0
  /\ Len(results) < Len(secret_specs)
  /\ pc = "exit_err"

\* C3: with concurrency >= 1 the chunks are consecutive runs of `concurrency`
\* references taken in order: at most `concurrency` fetches are in flight,
\* all of the running chunk, every reference before the chunk has completed
\* and been joined and no reference after it has been started.
ChunksInOrder ==
  args.concurrency >= 1 =>
       /\ Cardinality(InFlight) <= args.concurrency
       /\ (next - 1) % args.concurrency = 0 \/ next = Len(secret_specs) + 1
       /\ \A i \in InFlight : next <= i /\ i < next + args.concurrency
       /\ \A i \in DOMAIN tasks :
            /\ i < next => tasks[i].st = "dropped"
            /\ i >= next + args.concurrency => tasks[i].st = "idle"
            /\ tasks[i].st = "idle" => \A j \in DOMAIN tasks : j > i => tasks[j].st = "idle"
       /\ InFlight # {} => pc = "join"

\* The second chunk is being fetched: the two references of the first chunk
\* have been joined and the third is in flight.
ChunksInOrderWitness ==
  /\ args.concurrency = 2
  /\ Len(secret_specs) = 3
  /\ next = 3
  /\ InFlight = {3}

\* One step of the future of reference i, seen from outside: t before, u after.
FetchSingleStep(i, t, u) ==
  /\ (t.st \in {"idle", "sleep"} /\ u.st # t.st) =>
       \/ u.st = "v2" /\ u.v1n = u.attempt - 1
       \/ t.st = "sleep" /\ u.st = "done" /\ IsErr(Unwrap(u.out))
  /\ (t.st = "v2" /\ u.st # "v2") =>
       \/ /\ u.st = "done" /\ u.via = "v2"
          /\ u.out = Some(Ok([name |-> name(secret_specs[i]),
                              secret |-> VaultValue(secret_specs[i])]))
       \/ u.st = "v1" /\ u.v1n = t.v1n + 1
  /\ (t.st = "v1" /\ u.st # "v1") =>
       \/ /\ u.st = "done" /\ u.via = "v1"
          /\ u.out = Some(Ok([name |-> name(secret_specs[i]),
                              secret |-> VaultValue(secret_specs[i])]))
       \/ u.st = "sleep" /\ u.lastErr \in {NoErr, ErrorReqwest, ErrorNotFound, ErrorDeserialization}

\* C4: every attempt of a reference sends the v2 request first; a v2 answer
\* that is valid is returned with no v1 request made; any v2 failure is
\* followed by the v1 request; a valid v1 answer is returned as Ok; the
\* attempt fails only when the v1 request fails too.
V2ThenV1 ==
  [][\A i \in DOMAIN tasks \cap DOMAIN tasks' :
       FetchSingleStep(i, tasks[i], tasks'[i])]_vars

\* A reference whose first v2 request failed and whose v1 request returned
\* the secret.
V2ThenV1Witness ==
  \E i \in DOMAIN tasks :
    /\ tasks[i].st = "done" /\ tasks[i].via = "v1"
    /\ IsOk(Unwrap(tasks[i].out))

\* C5: retry makes its attempts one after the other, at most retries + 1 of
\* them, none after an Ok, whose value it returns; when all fail it returns
\* MaxRetries, after exactly retries + 1 attempts.  Both for the token and
\* for each reference.
RetryInv ==
  /\ tokAttempt <= args.retries + 1
  /\ (pc = "exit_err" /\ stages = <<"parse", "token">>) =>
       /\ ret = Some(Err(ErrorMaxRetries))
       /\ tokAttempt = args.retries + 1
  /\ \A i \in DOMAIN tasks :
       /\ tasks[i].attempt <= args.retries + 1
       /\ (tasks[i].st = "done" /\ IsErr(Unwrap(tasks[i].out))) =>
            /\ Unwrap(tasks[i].out) = Err(ErrorMaxRetries)
            /\ tasks[i].attempt = args.retries + 1
       /\ (tasks[i].st = "done" /\ IsOk(Unwrap(tasks[i].out))) =>
            Unwrap(tasks[i].out)[2].secret = VaultValue(secret_specs[i])

RetryStep ==
  /\ tokAttempt' # tokAttempt =>
       \/ pc = "fetch_token" /\ tokAttempt' = 1
       \/ pc = "token_sleep" /\ tokAttempt' = tokAttempt + 1
       \/ pc = "token_req" /\ pc' = "fetch" /\ token' = Some(VaultToken) /\ tokAttempt' = 0
  /\ \A i \in DOMAIN tasks \cap DOMAIN tasks' :
       /\ tasks'[i].attempt # tasks[i].attempt =>
            \/ tasks[i].st = "idle" /\ tasks'[i].attempt = 1
            \/ tasks[i].st = "sleep" /\ tasks'[i].attempt = tasks[i].attempt + 1
            \/ tasks[i].st = "done" /\ tasks'[i].st = "dropped"
            \/ /\ tasks[i].st \in {"v2", "v1"} /\ tasks'[i].st = "done"
               /\ IsOk(Unwrap(tasks'[i].out)) /\ tasks'[i].attempt = 0
       /\ tasks[i].st = "done" => tasks'[i].st \in {"done", "dropped"}

RetryContract == [][RetryInv' /\ RetryStep]_vars

\* With retries = 1, one reference has given up after its second attempt and
\* a sibling of its chunk has then been fetched.
RetryContractWitness ==
  /\ args.retries = 1
  /\ \E i, j \in DOMAIN tasks :
       /\ tasks[i].st = "done" /\ Unwrap(tasks[i].out) = Err(ErrorMaxRetries)
       /\ tasks[i].attempt = 2
       /\ tasks[j].st = "done" /\ IsOk(Unwrap(tasks[j].out))
       /\ completed = <<i, j>>

\* The first reference of the running chunk, in input order, whose future
\* completed with an error (0 when there is none).
FirstFailed ==
  LET bad == {i \in Chunk : tasks[i].st = "done" /\ IsErr(Unwrap(tasks[i].out))}
  IN IF bad = {} THEN 0 ELSE CHOOSE i \in bad : \A j \in bad : i <= j

\* C6, as claimed: the error fetch_all returns is the last underlying fetch
\* error of the reference that failed.
ReturnsLastFetchError ==
  (IsSome(fetched) /\ IsErr(Unwrap(fetched))) =>
    /\ FirstFailed # 0
    /\ Unwrap(fetched)[2] = tasks[FirstFailed].lastErr

\* C6, as amended: the error fetch_all returns is MaxRetries, the marker retry
\* gives for the first reference of the chunk, in input order, that failed;
\* the last fetch error of that reference is another error, which was only
\* logged.
ReturnsMaxRetries ==
  (IsSome(fetched) /\ IsErr(Unwrap(fetched))) =>
    /\ FirstFailed # 0
    /\ Unwrap(fetched) = Unwrap(tasks[FirstFailed].out)
    /\ Unwrap(fetched)[2] = ErrorMaxRetries
    /\ tasks[FirstFailed].lastErr \in {ErrorReqwest, ErrorNotFound, ErrorDeserialization}
    /\ ret = fetched

\* fetch_all has returned an error for a chunk in which two references failed
\* with different last errors.
ReturnsMaxRetriesWitness ==
  /\ IsSome(fetched) /\ IsErr(Unwrap(fetched))
  /\ \E i, j \in Chunk :
       /\ i < j
       /\ tasks[i].lastErr = ErrorNotFound
       /\ tasks[j].lastErr = ErrorReqwest

\* C7, as claimed: with Kubernetes auth an unreadable service-account file
\* ends fetch_token at once: one attempt, no delay, no retry.
TokenFileFailureIsFatal ==
  tokErr = ErrorIO => (pc = "exit_err" /\ tokAttempt = 1)

\* C8: with AuthMethod::Token(t) fetch_token returns Some(t) and with
\* AuthMethod::None it returns None, in one step: no attempt of retry, no
\* request, no delay, no failure.
TokenWithoutLoginStep ==
  (pc = "fetch_token" /\ Unwrap(auth).method.tag \in {"Token", "None"}) =>
    /\ pc' = "fetch"
    /\ token' = IF Unwrap(auth).method.tag = "Token"
                THEN Some(Unwrap(auth).method.val) ELSE None
    /\ tokAttempt' = 0 /\ tokAttempt = 0
    /\ tokErr' = NoErr
    /\ ~netUsed /\ ~netUsed'
    /\ ret' = None

TokenWithoutLogin ==
  [][(tokAttempt' > 0 => Unwrap(auth').method.tag \in {"GitHub", "Kubernetes"})
     /\ TokenWithoutLoginStep]_vars

\* fetch_token has returned the configured token and nothing has been sent.
TokenWithoutLoginWitness ==
  /\ pc = "fetch"
  /\ next = 1
  /\ token = Some("tok")
  /\ tokAttempt = 0
  /\ ~netUsed

\* C9: auth_method picks the token if there is one, else the Kubernetes role
\* if there is one, else the GitHub PAT if there is one, else None; and the
\* token stage does what the chosen variant asks for.
AuthPrecedence ==
  IsSome(auth) =>
    LET c == Unwrap(auth).cred
        m == Unwrap(auth).method
    IN /\ IsSome(c.token) => m = AuthToken(Unwrap(c.token))
       /\ (~IsSome(c.token) /\ IsSome(c.kubernetes_role)) =>
            m = AuthKubernetes(Unwrap(c.kubernetes_role))
       /\ (~IsSome(c.token) /\ ~IsSome(c.kubernetes_role) /\ IsSome(c.github_token)) =>
            m = AuthGitHub(Unwrap(c.github_token))
       /\ (~IsSome(c.token) /\ ~IsSome(c.kubernetes_role) /\ ~IsSome(c.github_token)) =>
            m = AuthNone
       /\ pc = "token_file" => (~IsSome(c.token) /\ IsSome(c.kubernetes_role))
       /\ pc \in {"token_req", "token_sleep"} =>
            (~IsSome(c.token) /\ (IsSome(c.kubernetes_role) \/ IsSome(c.github_token)))

\* A Kubernetes role and a GitHub PAT are configured, no token: the
\* service-account file is being read.
AuthPrecedenceWitness ==
  /\ pc = "token_file"
  /\ IsSome(auth)
  /\ ~IsSome(Unwrap(auth).cred.token)
  /\ IsSome(Unwrap(auth).cred.kubernetes_role)
  /\ IsSome(Unwrap(auth).cred.github_token)

AllStages == <<"parse", "token", "fetch", "spawn">>

\* C10: main starts its stages in the order parse, token, fetch, spawn, each
\* after the one before succeeded; a failure to load or parse leaves the
\* network unused; after a parse, token or fetch failure main has returned an
\* error and execvpe was never called.
StagesInOrder ==
  /\ \E n \in 1..4 : stages = SubSeq(AllStages, 1, n)
  /\ netUsed => Len(stages) >= 2
  /\ pc = "load" => stages = <<"parse">>
  /\ pc \in {"token", "fetch_token", "token_file", "token_req", "token_sleep"} =>
       stages = <<"parse", "token">>
  /\ pc \in {"fetch", "join", "panic"} => stages = <<"parse", "token", "fetch">>
  /\ pc \in {"spawn", "exec"} => stages = AllStages
  /\ Len(stages) >= 2 => (IsSome(ret) => Unwrap(ret)[2].kind \notin {"Parse", "IO"})
  /\ Len(stages) = 4 => (IsSome(fetched) /\ IsOk(Unwrap(fetched)))
  /\ pc = "exit_err" => (IsSome(ret) /\ IsErr(Unwrap(ret)))
  /\ IsSome(ret) =>
       /\ IsErr(Unwrap(ret))
       /\ pc = "exit_err"
       /\ Unwrap(ret)[2].kind \in {"Parse", "IO"} =>
            (stages = <<"parse">> /\ ~netUsed /\ env = None)
       /\ Unwrap(ret)[2].kind = "MaxRetries" =>
            (Len(stages) \in {2, 3} /\ env = None)
       /\ Unwrap(ret)[2].kind = "Execution" => stages = AllStages
  /\ pc = "exec" => (IsSome(env) /\ ret = None)

\* The second line of the file is invalid: main has returned the parse error,
\* no credential was looked at and nothing was sent.
StagesInOrderWitness ==
  /\ pc = "exit_err"
  /\ IsSome(ret)
  /\ Unwrap(ret)[2].kind = "Parse"
  /\ Unwrap(ret)[2].lc = 2
  /\ auth = None
  /\ ~netUsed
  /\ env = None

\* C11: when process::spawn is entered, and from then on, no fetch work is in
\* flight: fetch_token has returned (its retry and its auth_method are gone),
\* fetch_all has returned Ok, every reference was chunked, and the future of
\* every reference has completed, was joined and is dropped.
NothingInFlightAtSpawn ==
  (pc \in {"spawn", "exec"} \/ IsSome(env)) =>
    /\ InFlight = {}
    /\ \A i \in DOMAIN tasks : tasks[i].st = "dropped"
    /\ completed = <<>>
    /\ next = Len(secret_specs) + 1
    /\ auth = None
    /\ tokAttempt = 0
    /\ tokErr = NoErr
    /\ IsSome(fetched) /\ IsOk(Unwrap(fetched))
    /\ Len(Unwrap(fetched)[2]) = Len(secret_specs)

\* execvpe has replaced the process after a login at the vault and the fetch
\* of three references in chunks of two, one future having overtaken another.
NothingInFlightWitness ==
  /\ pc = "exec"
  /\ token = Some(VaultToken)
  /\ Len(secret_specs) = 3
  /\ args.concurrency = 2
  /\ overtaken
  /\ IsSome(env)

\* The lines of the file parse was called on, and what parse returned.
CallLines == Unwrap(call).lines
Parsed == Unwrap(returned).value
ParseReturned == pc \in {"parsed", "named"}

\* The numbers of the lines that parse rejects when given that line alone.
InvalidLines == {i \in 1..Len(CallLines) : IsErr(parse(CallLines[i]))}

\* C12: parse returns Err as soon as the file has a line that is invalid on
\* its own, and so returns no reference; the error is that of the first such
\* line in file order, with its text and with its number counted from one
\* over all the lines, blank ones included.
FirstInvalidLineReported ==
  ParseReturned =>
    IF InvalidLines = {} THEN IsOk(Parsed)
    ELSE LET i == CHOOSE i \in InvalidLines : \A j \in InvalidLines : i <= j
         IN /\ IsErr(Parsed)
            /\ Parsed[2].kind = "Parse"
            /\ Parsed[2].lc = i
            /\ Parsed[2].line = CallLines[i]
            /\ Parsed[2].err = parse(CallLines[i])[2].err

\* A blank line, a valid line, an invalid one: parse reports line 3.
FirstInvalidLineWitness ==
  /\ ParseReturned
  /\ CallLines = <<LineBlank, LineNamed, LineJunk>>
  /\ IsErr(Parsed)
  /\ Parsed[2].lc = 3
  /\ Parsed[2].line = LineJunk

\* A line with nothing on it, or nothing but spaces and tabs.
BlankLine(l) == \A i \in 1..Len(l) : l[i] \in {" ", "\t"}
\* The lines of the file that are not blank, in file order.
NonBlankLines == SelectSeq(CallLines, LAMBDA l : ~BlankLine(l))

\* C13: when every non-blank line of the file is valid on its own, parse
\* returns Ok with exactly one reference per non-blank line, in file order,
\* each the reference of its line; blank lines add nothing and are no error,
\* and a file with none but blank lines gives the empty sequence.
BlankLinesSkipped ==
  (ParseReturned /\ \A k \in 1..Len(NonBlankLines) : IsOk(parse(NonBlankLines[k]))) =>
    /\ IsOk(Parsed)
    /\ Len(Parsed[2]) = Len(NonBlankLines)
    /\ \A k \in 1..Len(NonBlankLines) : parse(NonBlankLines[k]) = Ok(<<Parsed[2][k]>>)

\* Two references with a line of tab and space between them.
BlankLinesSkippedWitness ==
  /\ ParseReturned
  /\ CallLines = <<LineDerived, LineTabs, LineNamed>>
  /\ IsOk(Parsed)
  /\ Len(Parsed[2]) = 2
  /\ Parsed[2][1].name = None
  /\ Parsed[2][2].name = Some(<<"A">>)

\* The line starts with a name that begins with a digit: a digit, then
\* letters, digits and underscores up to a `=`.
DigitNamed(l) ==
  \E k \in 2..Len(l) :
    /\ l[k] = "="
    /\ l[1] \in Digit
    /\ \A j \in 1..(k - 1) : l[j] \in Lower \cup Upper \cup Digit \cup {"_"}

\* C14: every reference parse returns that has an explicit name has one
\* that is not empty, is made of letters, digits and underscores only and
\* does not start with a digit; and parse fails on every file with a line
\* whose name starts with a digit.
ExplicitNameWellFormed ==
  ParseReturned =>
    /\ IsOk(Parsed) =>
         \A i \in 1..Len(Parsed[2]) :
           IsSome(Parsed[2][i].name) =>
             LET n == Unwrap(Parsed[2][i].name)
             IN /\ n # <<>>
                /\ \A j \in 1..Len(n) : n[j] \in Lower \cup Upper \cup Digit \cup {"_"}
                /\ n[1] \notin Digit
    /\ (\E i \in 1..Len(CallLines) : DigitNamed(CallLines[i])) => IsErr(Parsed)

\* parse has returned the reference of a line named A, after one with no
\* name.
ExplicitNameWitness ==
  /\ ParseReturned
  /\ CallLines = <<LineDerived, LineNamed>>
  /\ IsOk(Parsed)
  /\ Parsed[2][2] = [name |-> Some(<<"A">>), mount |-> <<"m">>,
                     path |-> <<"p">>, secret |-> <<"k">>]

\* The line is a `=` followed by what is, on its own, a valid line with no
\* name.
EmptyNamed(l) ==
  /\ Len(l) > 1
  /\ l[1] = "="
  /\ LET r == parse(Tail(l))
     IN IsOk(r) /\ Len(r[2]) = 1 /\ r[2][1].name = None

\* C15 as the spec states it: parse accepts the line and returns the
\* reference of the rest of the line, with no explicit name.
EmptyNameDerives ==
  (ParseReturned /\ Len(CallLines) = 1 /\ EmptyNamed(CallLines[1])) =>
    Parsed = parse(Tail(CallLines[1]))

\* C15: parse fails on every file that has such a line, and where that line
\* is the one parse stopped at the error is "name cannot be empty", with the
\* line and its number.
EmptyNameRejected ==
  ParseReturned =>
    \A i \in 1..Len(CallLines) :
      EmptyNamed(CallLines[i]) =>
        /\ IsErr(Parsed)
        /\ Parsed[2].lc = i =>
             Parsed[2] = [kind |-> "Parse", err |-> "name cannot be empty",
                          lc |-> i, line |-> CallLines[i]]

\* parse stopped at the second line, which starts with `=`.
EmptyNameRejectedWitness ==
  /\ ParseReturned
  /\ CallLines = <<LineDerived, LineEmptyName>>
  /\ IsErr(Parsed)
  /\ Parsed[2].err = "name cannot be empty"
  /\ Parsed[2].lc = 2

\* The uppercase form of a character: A..Z for a..z, the capital e with acute
\* for the small one, the character itself where it has no other.
UppercaseForm(c) ==
  IF c \in Lower THEN UpperOf[c] ELSE IF c = EAcute THEN EAcuteCapital ELSE c
\* Letters and digits.
Alphanumeric == Lower \cup Upper \cup Digit \cup {EAcute, EAcuteCapital}
\* The derivation the spec documents: each character to its uppercase form if
\* alphanumeric and to `_` if not, path and key joined by `_`.
DocumentedTransform(s) ==
  [i \in 1..Len(s) |-> IF s[i] \in Alphanumeric THEN UppercaseForm(s[i]) ELSE "_"]
DocumentedName(spec) ==
  DocumentedTransform(spec.path) \o <<"_">> \o DocumentedTransform(spec.secret)

\* C16: name() of a parsed reference with no explicit name is the documented
\* derivation from its path and key, and name() of a reference with an
\* explicit name is that name.
NameIsDocumentedDerivation ==
  pc = "named" =>
    \A i \in 1..Len(Parsed[2]) :
      Unwrap(returned).names[i] =
        IF IsSome(Parsed[2][i].name) THEN Unwrap(Parsed[2][i].name)
        ELSE DocumentedName(Parsed[2][i])

\* C17: with clear_env set, the environment spawn hands to execvpe is the
\* list of the `name=value` entries of the secrets, one per secret and in
\* their order, whatever the process inherited.
ClearEnvOnlySecrets ==
  (pc = "spawned" /\ Unwrap(call).clear_env) =>
    LET c_env == Unwrap(returned).c_env
        secrets == Unwrap(call).secrets
    IN /\ Len(c_env) = Len(secrets)
       /\ \A k \in 1..Len(secrets) :
            c_env[k] = secrets[k].name \o <<"=">> \o secrets[k].secret

\* Two secrets handed over with clear_env in a process that inherited A and
\* C: the environment has the two secrets and nothing else.
ClearEnvWitness ==
  /\ pc = "spawned"
  /\ Unwrap(call).clear_env
  /\ Len(Unwrap(call).inherited) = 2
  /\ Unwrap(call).secrets = <<[name |-> <<"A">>, secret |-> <<"y">>],
                              [name |-> <<"B">>, secret |-> <<"x">>]>>
  /\ Unwrap(returned).c_env = <<<<"A", "=", "y">>, <<"B", "=", "x">>>>

\* The variable an entry `name=value` sets, and the value it gives it.
EntryName(e) == SubSeq(e, 1, IndexOf(e, "=", 1) - 1)
EntryValue(e) == SubSeq(e, IndexOf(e, "=", 1) + 1, Len(e))

\* C18: the environment spawn has built holds at most one entry for each
\* variable name, and the entry of a secret's name has the value of the last
\* secret of the list with that name.
SecretsOverwrite ==
  pc = "spawned" =>
    LET c_env == Unwrap(returned).c_env
        secrets == Unwrap(call).secrets
    IN /\ \A i, j \in 1..Len(c_env) :
            EntryName(c_env[i]) = EntryName(c_env[j]) => i = j
       /\ \A k \in 1..Len(secrets) :
            (\A j \in (k + 1)..Len(secrets) : secrets[j].name # secrets[k].name) =>
              \A i \in 1..Len(c_env) :
                EntryName(c_env[i]) = secrets[k].name =>
                  EntryValue(c_env[i]) = secrets[k].secret

\* The names the environment holds when the turn of the k-th secret comes:
\* the inherited ones unless clear_env, and those of the secrets before it.
NamesBefore(k) ==
  (IF Unwrap(call).clear_env THEN {}
   ELSE {Unwrap(call).inherited[j][1] : j \in 1..Len(Unwrap(call).inherited)})
  \cup {Unwrap(call).secrets[j].name : j \in 1..(k - 1)}

\* C19: spawn logs the overwrite warning for a secret exactly when the
\* environment built so far has a variable of the secret's name, whatever
\* its value; the warning stops nothing, the environment gets the secret's
\* entry and execvpe is called.
WarnedWhenNameExists ==
  pc = "spawned" =>
    /\ \A k \in 1..Len(Unwrap(call).secrets) :
         (k \in Unwrap(returned).warned) <=>
           (Unwrap(call).secrets[k].name \in NamesBefore(k))
    /\ Unwrap(returned).value \in {None, Some(Err(ErrorExecution))}

\* What is shown of secret s in the representation r: the name sits after
\* the head of the format, unmasked; the place of the value holds as many
\* `*` as the value has characters, and nothing of r is left over.
MaskedRepr(r, s) ==
  LET n == Len(s.name)
      v == Len(s.secret)
      at == Len(FmtHead) + n + Len(FmtMid)
  IN /\ Len(r) = at + v + Len(FmtTail)
     /\ SubSeq(r, 1, Len(FmtHead)) = FmtHead
     /\ SubSeq(r, Len(FmtHead) + 1, Len(FmtHead) + n) = s.name
     /\ SubSeq(r, Len(FmtHead) + n + 1, at) = FmtMid
     /\ \A i \in (at + 1)..(at + v) : r[i] = "*"
     /\ SubSeq(r, at + v + 1, Len(r)) = FmtTail

\* C20: the Debug representation of a secret shows its name and, in place
\* of the value, one `*` per character of the value; two secrets of the same
\* name whose values have the same length have the same representation.
DebugMasksValue ==
  pc = "formatted" =>
    LET a == Unwrap(call).a
        b == Unwrap(call).b
        r == Unwrap(returned).value
    IN /\ MaskedRepr(r[1], a)
       /\ MaskedRepr(r[2], b)
       /\ (a.name = b.name /\ Len(a.secret) = Len(b.secret)) => r[1] = r[2]

\* Two secrets named A with different values of two characters, one of them
\* outside ASCII, have been formatted.
DebugMasksValueWitness ==
  /\ pc = "formatted"
  /\ Unwrap(call).a = [name |-> <<"A">>, secret |-> <<"x", "y">>]
  /\ Unwrap(call).b = [name |-> <<"A">>, secret |-> <<EAcute, "x">>]
  /\ Unwrap(returned).value[1] = Unwrap(returned).value[2]

\* C22: when fetch_all returns an error, every future of the failing chunk
\* has completed, with a secret or with its attempts exhausted, the error is
\* that of one of them, none of the chunk's secrets has been pushed, no
\* reference of a later chunk has been started and nothing is spawned; until
\* then nothing after the chunk being joined is started.
SiblingsNotCancelled ==
  /\ (IsSome(fetched) /\ IsErr(Unwrap(fetched))) =>
       /\ pc = "exit_err"
       /\ \A i \in Chunk :
            /\ tasks[i].st = "done"
            /\ \/ IsOk(Unwrap(tasks[i].out))
               \/ tasks[i].attempt = RetryAttempts(args.retries)
       /\ \E i \in Chunk : Unwrap(tasks[i].out) = Unwrap(fetched)
       /\ Len(results) = next - 1
       /\ env = None
  /\ (pc = "join" \/ (IsSome(fetched) /\ IsErr(Unwrap(fetched)))) =>
       /\ Chunk # {}
       /\ \A i \in DOMAIN tasks : (\A j \in Chunk : i > j) => tasks[i] = IdleTask

\* Of three references fetched two at a time, the first has given up, the
\* second was fetched after that, and fetch_all has returned the error; the
\* third was never started.
SiblingsNotCancelledWitness ==
  /\ pc = "exit_err"
  /\ Len(secret_specs) = 3
  /\ args.concurrency = 2
  /\ completed = <<1, 2>>
  /\ Unwrap(tasks[1].out) = Err(ErrorMaxRetries)
  /\ IsOk(Unwrap(tasks[2].out))
  /\ fetched = Some(Err(ErrorMaxRetries))
  /\ results = <<>>
  /\ tasks[3] = IdleTask

\* C23: falling back to v1 takes no attempt of retry.  A reference in its
\* k-th attempt (k <= retries + 1) has sent k v2 requests, one per attempt;
\* while its v2 request is out it has sent k - 1 v1 requests, and once the
\* v2 request of the attempt has failed, k of them: at most one v1 request
\* per attempt, at most retries + 1 of each kind.
FallbackTakesNoAttempt ==
  \A i \in DOMAIN tasks :
    /\ tasks[i].attempt <= RetryAttempts(args.retries)
    /\ tasks[i].v1n <= RetryAttempts(args.retries)
    /\ tasks[i].st = "v2" => (tasks[i].attempt >= 1 /\ tasks[i].v1n = tasks[i].attempt - 1)
    /\ tasks[i].st \in {"v1", "sleep"} => tasks[i].v1n = tasks[i].attempt
    /\ (tasks[i].st = "done" /\ IsErr(Unwrap(tasks[i].out))) =>
         /\ tasks[i].attempt = RetryAttempts(args.retries)
         /\ tasks[i].v1n = RetryAttempts(args.retries)

\* With retries = 1, a reference whose first attempt failed on v2 and on v1
\* has sent the v2 request of its second attempt, and then its second v1
\* request.
FallbackTakesNoAttemptWitness ==
  /\ args.retries = 1
  /\ \E i \in DOMAIN tasks :
       tasks[i].st = "v1" /\ tasks[i].attempt = 2 /\ tasks[i].v1n = 2

\* One step of the retry of a reference, t before and u after: where its
\* sleep starts and what follows it.
RetrySleepStep(t, u) ==
  /\ (t.st = "v1" /\ u.st # "v1") =>
       \/ u.st = "done" /\ IsOk(Unwrap(u.out))
       \/ u.st = "sleep" /\ u.attempt = t.attempt
  /\ (t.st = "v2" /\ u.st = "done") => IsOk(Unwrap(u.out))
  /\ (u.st = "sleep" /\ t.st # "sleep") => t.st = "v1"
  /\ (t.st = "sleep" /\ u.st # "sleep") =>
       \/ /\ t.attempt < args.retries + 1
          /\ u.st = "v2" /\ u.attempt = t.attempt + 1
       \/ /\ t.attempt = args.retries + 1
          /\ u.st = "done" /\ u.out = Some(Err(ErrorMaxRetries))
  /\ (u.st = "done" /\ t.st # "done" /\ IsErr(Unwrap(u.out))) => t.st = "sleep"

\* The same for the retry of the login.
TokenSleepStep ==
  /\ (pc \in {"token_file", "token_req"} /\ pc' # pc) =>
       \/ pc = "token_file" /\ pc' = "token_req" /\ tokAttempt' = tokAttempt
       \/ pc = "token_req" /\ pc' = "fetch" /\ IsSome(token')
       \/ pc' = "token_sleep" /\ tokAttempt' = tokAttempt
  /\ (pc' = "token_sleep" /\ pc # "token_sleep") => pc \in {"token_file", "token_req"}
  /\ (pc = "token_sleep" /\ pc' # pc) =>
       \/ /\ tokAttempt < args.retries + 1
          /\ pc' \in {"token_file", "token_req"} /\ tokAttempt' = tokAttempt + 1
       \/ /\ tokAttempt = args.retries + 1
          /\ pc' = "exit_err" /\ ret' = Some(Err(ErrorMaxRetries))

\* C24: retry sleeps after every failed attempt, the final one included, and
\* never after a successful one.  A failed attempt is always followed by the
\* sleep, in the same attempt; an Ok is returned with no sleep; the sleep
\* starts nowhere else; after it comes the next attempt, or, when it was the
\* sleep of attempt retries + 1, MaxRetries, which is returned from nowhere
\* else: retries + 1 attempts and as many sleeps.
SleepAfterEveryFailure ==
  [][/\ TokenSleepStep
     /\ \A i \in DOMAIN tasks \cap DOMAIN tasks' :
          RetrySleepStep(tasks[i], tasks'[i])]_vars

\* With retries = 1, the second attempt of a reference has failed and retry
\* sleeps once more before giving up.
SleepAfterEveryFailureWitness ==
  /\ args.retries = 1
  /\ \E i \in DOMAIN tasks :
       /\ tasks[i].st = "sleep"
       /\ tasks[i].attempt = 2
       /\ tasks[i].lastErr # NoErr

\* C25: fetch_all never panics: whatever the concurrency given, it goes on
\* to return a list of secrets or an error.
FetchAllNeverPanics == pc # "panic"

\* C26: when every request is answered and every sleep ends, fetch_all
\* called with concurrency >= 1 returns, with the secrets or with an error,
\* whatever the answers are, and every chunk it waits for is joined.
FetchAllReturns ==
  /\ (pc = "fetch" /\ args.concurrency >= 1) ~> IsSome(fetched)
  /\ (pc = "join") ~> (pc # "join")

\* fetch_all has returned the error of a reference all of whose requests
\* failed, with retries = 1 and a second chunk never started.
FetchAllReturnsWitness ==
  /\ IsSome(fetched) /\ IsErr(Unwrap(fetched))
  /\ args.retries = 1
  /\ args.concurrency = 1
  /\ Len(secret_specs) = 2
  /\ tasks[1].attempt = 2 /\ tasks[1].v1n = 2
  /\ tasks[2] = IdleTask

\* m holds the string v.
Holds(m, v) == \E i \in 1..Len(m) : i + Len(v) - 1 <= Len(m) /\ SubSeq(m, i, i + Len(v) - 1) = v

====
